---- MODULE Spec2Model ----
(***************************************************************************)
(* Model of the normalization and merge engine of ecommerce-data-pipeline  *)
(* (src/utils/data_cleaner.py, class DataCleaner) and of the order in      *)
(* which src/main.py drives it.                                            *)
(*                                                                         *)
(* A table (pandas DataFrame) is a record                                  *)
(*   [cols  : the set of column names,                                     *)
(*    dtype : column name -> "int64" | "float64" | "object" | "bool"       *)
(*                           | "Int64" | "category",                       *)
(*    rows  : sequence of [idx : index label, cell : column name -> cell]] *)
(* A cell is a record [k, n, s, l] of uniform shape:                       *)
(*   k = "num"  : a number; n counts HALVES (n = 3 is 1.5), so that the    *)
(*                median of two whole numbers is representable             *)
(*   k = "str"  : the text s                                               *)
(*   k = "bool" : n = 1 for True, n = 0 for False                          *)
(*   k = "nan"  : a missing value (None, NaN, <NA>)                        *)
(*   k = "list" : a list, l holds its elements                             *)
(*   k = "map"  : a mapping width/height/depth, l holds the three values   *)
(*                                                                         *)
(* pandas semantics assumed: those of pandas 1.x / 2.x without             *)
(* copy-on-write, where  df[col].fillna(v, inplace=True)  writes through   *)
(* to df.                                                                  *)
(***************************************************************************)
EXTENDS Integers, Sequences, FiniteSets, TLC

\* ------------------------------------------------------------------ bounds
\* longest list of raw API records drawn at the start
MaxApi == 2
\* longest list of raw API records of the identity family (ids of mixed
\* kinds), where a clash of ids needs a third record
MaxIdentity == 3
\* longest list of raw crawl records drawn at the start
MaxWeb == 2

\* largest max_products and max_pages a scraper is called with, most
\* products a server page or a site page holds
MaxProducts == 2
MaxPages == 2
MaxPageSize == 2

\* ------------------------------------------------------------------- cells
Half(h) == [k |-> "num", n |-> h, s |-> "", l |-> <<>>]
Num(i) == Half(2 * i)
Str(t) == [k |-> "str", n |-> 0, s |-> t, l |-> <<>>]
Bool(b) == [k |-> "bool", n |-> (IF b THEN 1 ELSE 0), s |-> "", l |-> <<>>]
NaN == [k |-> "nan", n |-> 0, s |-> "", l |-> <<>>]
List(el) == [k |-> "list", n |-> 0, s |-> "", l |-> el]
Map(whd) == [k |-> "map", n |-> 0, s |-> "", l |-> whd]

IsNa(c) == c.k = "nan"
IsNum(c) == c.k = "num"

\* the sequences over S of length 0..n
SeqUpTo(S, n) == UNION {[1..m -> S] : m \in 0..n}

\* the rows of `rows` whose position is not marked in `drop`
RECURSIVE Compress(_, _)
Compress(rows, drop) ==
    IF rows = <<>> THEN <<>>
    ELSE (IF drop[1] THEN <<>> ELSE <<Head(rows)>>)
         \o Compress(Tail(rows), Tail(drop))

\* ------------------------------------------------------------ pandas core
\* pd.DataFrame()
EmptyDF == [cols |-> {}, dtype |-> <<>>, rows |-> <<>>]

\* DataFrame.empty: some axis has length 0
IsEmpty(df) == df.cols = {} \/ df.rows = <<>>

\* the values of column c, in row order
Column(df, c) == [i \in 1..Len(df.rows) |-> df.rows[i].cell[c]]

\* dtype inferred for a sequence of Python objects
InferDtype(vals) ==
    IF Len(vals) > 0 /\ \A i \in 1..Len(vals) : vals[i].k = "num" /\ vals[i].n % 2 = 0
      THEN "int64"
    ELSE IF (\A i \in 1..Len(vals) : vals[i].k \in {"num", "nan"})
            /\ (\E i \in 1..Len(vals) : vals[i].k = "num")
      THEN "float64"
    ELSE IF Len(vals) > 0 /\ \A i \in 1..Len(vals) : vals[i].k = "bool"
      THEN "bool"
    ELSE "object"

\* pd.DataFrame(products): one column per key that occurs in some record,
\* a record without the key gets a missing value, index labels 0..n-1
FromRecords(products) ==
    LET cols == UNION {DOMAIN products[i] : i \in 1..Len(products)}
        cellOf(i, c) == IF c \in DOMAIN products[i] THEN products[i][c] ELSE NaN
        rows == [i \in 1..Len(products) |->
                    [idx |-> i - 1, cell |-> [c \in cols |-> cellOf(i, c)]]]
    IN [cols |-> cols,
        dtype |-> [c \in cols |-> InferDtype([i \in 1..Len(products) |-> cellOf(i, c)])],
        rows |-> rows]

\* df[c] = vals, one value per row (adds or replaces column c)
SetColumn(df, c, dt, vals) ==
    [cols |-> df.cols \cup {c},
     dtype |-> [x \in df.cols \cup {c} |-> IF x = c THEN dt ELSE df.dtype[x]],
     rows |-> [i \in 1..Len(df.rows) |->
                 [idx |-> df.rows[i].idx,
                  cell |-> [x \in df.cols \cup {c} |->
                              IF x = c THEN vals[i] ELSE df.rows[i].cell[x]]]]]

\* df.drop(c, axis=1)
DropColumn(df, c) ==
    [cols |-> df.cols \ {c},
     dtype |-> [x \in df.cols \ {c} |-> df.dtype[x]],
     rows |-> [i \in 1..Len(df.rows) |->
                 [idx |-> df.rows[i].idx,
                  cell |-> [x \in df.cols \ {c} |-> df.rows[i].cell[x]]]]]

\* two rows agree on every column of `subset` (missing values compare equal)
SameKey(r1, r2, subset) == \A c \in subset : r1.cell[c] = r2.cell[c]

\* duplicated(subset, keep='last') in place of keep='first'
DuplicatedKeepLast(df, subset) ==
    [i \in 1..Len(df.rows) |->
        \E j \in (i + 1)..Len(df.rows) : SameKey(df.rows[j], df.rows[i], subset)]

\* DataFrame.duplicated(subset, keep='first'): the mask of the rows that
\* repeat an earlier row on `subset`
Duplicated(df, subset) ==
    [i \in 1..Len(df.rows) |->
        \E j \in 1..(i - 1) : SameKey(df.rows[j], df.rows[i], subset)]

\* drop_duplicates that looks the subset up before it looks at the frame
DropDuplicatesNoEmptyCheck(df, subset) ==
    IF ~(subset \subseteq df.cols) THEN [raised |-> "KeyError", df |-> df]
    ELSE [raised |-> "",
          df |-> [df EXCEPT !.rows = Compress(df.rows, Duplicated(df, subset))]]

\* DataFrame.drop_duplicates(subset, keep='first'): an empty frame is
\* returned as it is, a column of `subset` that does not exist is a KeyError
DropDuplicates(df, subset) ==
    IF IsEmpty(df) THEN [raised |-> "", df |-> df]
    ELSE IF ~(subset \subseteq df.cols) THEN [raised |-> "KeyError", df |-> df]
    ELSE [raised |-> "",
          df |-> [df EXCEPT !.rows = Compress(df.rows, Duplicated(df, subset))]]

\* ------------------------------------------------- _handle_missing_values
\* the sequence s with the number x inserted at its place in ascending order
RECURSIVE InsertSorted(_, _)
InsertSorted(s, x) ==
    IF s = <<>> THEN <<x>>
    ELSE IF x <= Head(s) THEN <<x>> \o s
    ELSE <<Head(s)>> \o InsertSorted(Tail(s), x)

\* the numbers (in halves) of the non-missing cells of vals, ascending
RECURSIVE SortedNums(_)
SortedNums(vals) ==
    IF vals = <<>> THEN <<>>
    ELSE IF IsNum(Head(vals)) THEN InsertSorted(SortedNums(Tail(vals)), Head(vals).n)
    ELSE SortedNums(Tail(vals))

\* Series.median(): skips missing values; the mean of the two middle values
\* for an even count (exact in halves when the values are whole numbers);
\* missing when no value is left
Median(vals) ==
    LET s == SortedNums(vals)
        m == Len(s)
    IN IF m = 0 THEN NaN
       ELSE IF m % 2 = 1 THEN Half(s[(m + 1) \div 2])
       ELSE Half((s[m \div 2] + s[m \div 2 + 1]) \div 2)

\* the value written by the "fill numeric with 0 or rows" branch, lines 162-166
NumericFill(col, vals) ==
    IF col \in {"price", "rating", "stock"} THEN Num(0) ELSE Median(vals)

\* the value written by the string branch, lines 172-175
StringFill(col) ==
    IF col \in {"description", "title", "category", "brand"} THEN Str("Unknown")
    ELSE Str("")

\* the value that replaces the missing cells of column col: chosen by the
\* column's dtype; a bool column holds no missing value
FillValue(df, col) ==
    IF df.dtype[col] \in {"float64", "int64"} THEN NumericFill(col, Column(df, col))
    ELSE IF df.dtype[col] = "object" THEN StringFill(col)
    ELSE NaN

HandleMissingValues(df) ==
    [df EXCEPT !.rows =
        [i \in 1..Len(df.rows) |->
            [idx |-> df.rows[i].idx,
             cell |-> [c \in df.cols |->
                         IF IsNa(df.rows[i].cell[c]) THEN FillValue(df, c)
                         ELSE df.rows[i].cell[c]]]]]

\* --------------------------------------------------- _validate_data_types
\* the numerals the model's texts can spell
NumStr == ("1" :> 1) @@ ("2" :> 2) @@ ("20" :> 20)

\* float(s) of a text: the number it spells, missing when it spells none
ParseNum(s) == IF s \in DOMAIN NumStr THEN Num(NumStr[s]) ELSE NaN

\* pd.to_numeric(x, errors='coerce') of one scalar
ToNumeric(c) ==
    IF c.k = "num" THEN c
    ELSE IF c.k = "str" THEN ParseNum(c.s)
    ELSE IF c.k = "bool" THEN Num(c.n)
    ELSE NaN

\* to_numeric rejects a list or a mapping whatever `errors` says
NotScalar(c) == c.k \in {"list", "map"}

\* dtype of the result of to_numeric
NumericDtype(vals) ==
    IF Len(vals) > 0 /\ \A i \in 1..Len(vals) : IsNum(vals[i]) /\ vals[i].n % 2 = 0
    THEN "int64" ELSE "float64"

\* bool(x) as astype(bool) applies it: NaN is truthy
ToBool(c) ==
    IF c.k = "num" THEN Bool(c.n # 0)
    ELSE IF c.k = "str" THEN Bool(c.s # "")
    ELSE IF c.k = "bool" THEN c
    ELSE IF c.k = "nan" THEN Bool(TRUE)
    ELSE Bool(c.l # <<>>)

NumericCandidates == {"price", "rating", "stock"}
BoolCandidates == {"in_stock", "onsale", "returnable"}

\* the cell of column c after the coercion of lines 194-214
Coerce(c, v) ==
    IF c \in NumericCandidates \cup {"id"} THEN ToNumeric(v)
    ELSE IF c \in BoolCandidates THEN ToBool(v)
    ELSE v

\* astype('Int64') refuses a value with a fractional part
ValidateDataTypes(df) ==
    LET out == [i \in 1..Len(df.rows) |->
                  [idx |-> df.rows[i].idx,
                   cell |-> [c \in df.cols |-> Coerce(c, df.rows[i].cell[c])]]]
        dt == [c \in df.cols |->
                 IF c = "id" THEN "Int64"
                 ELSE IF c \in NumericCandidates
                   THEN NumericDtype([i \in 1..Len(out) |-> out[i].cell[c]])
                 ELSE IF c \in BoolCandidates THEN "bool"
                 ELSE df.dtype[c]]
    IN IF \E i \in 1..Len(df.rows) :
            \E c \in df.cols \cap (NumericCandidates \cup {"id"}) :
                NotScalar(df.rows[i].cell[c])
         THEN [raised |-> "TypeError", df |-> df]
       ELSE IF "id" \in df.cols
               /\ \E i \in 1..Len(out) : IsNum(out[i].cell["id"]) /\ out[i].cell["id"].n % 2 # 0
         THEN [raised |-> "TypeError", df |-> df]
       ELSE [raised |-> "", df |-> [cols |-> df.cols, dtype |-> dt, rows |-> out]]

\* ------------------------------------------------------------ normalizers
ApiSource == Str("DummyJSON_API")
WebSource == Str("BooksToScrape_Web")

\* datetime.now().strftime(...): the capture time, one text per run
Timestamp == Str("2024-01-01 00:00:00")

\* str.lower().replace(' ', '_') of the column names the model uses; a name
\* that is already lower case without blanks is its own image
LowerTable ==
    ("regularPrice" :> "regularprice") @@ ("discountPercentage" :> "discountpercentage")
    @@ ("Product Type" :> "product_type")

StdName(c) == IF c \in DOMAIN LowerTable THEN LowerTable[c] ELSE c

\* df.columns = df.columns.str.lower().str.replace(' ', '_')
StandardizeColumns(df) ==
    LET src(n) == CHOOSE c \in df.cols : StdName(c) = n
        cols == {StdName(c) : c \in df.cols}
    IN [cols |-> cols,
        dtype |-> [n \in cols |-> df.dtype[src(n)]],
        rows |-> [i \in 1..Len(df.rows) |->
                    [idx |-> df.rows[i].idx,
                     cell |-> [n \in cols |-> df.rows[i].cell[src(n)]]]]]

\* one element of a reviews list: a mapping that has a rating, a mapping
\* that has none, or (any other cell) something that is not a mapping
Review(r) == [k |-> "map", n |-> 2 * r, s |-> "rating", l |-> <<>>]
ReviewNoRating == [k |-> "map", n |-> 0, s |-> "", l |-> <<>>]

RECURSIVE SumRatings(_)
SumRatings(el) ==
    IF el = <<>> THEN 0
    ELSE (IF Head(el).s = "rating" THEN Head(el).n ELSE 0) + SumRatings(Tail(el))

\* lines 51-53: sum(r.get('rating', 0) for r in x) / len(x), None for a
\* value that is not a non-empty list (exact in halves for the lists drawn)
AvgReviewRating(x) ==
    IF x.k = "list" /\ Len(x.l) > 0 THEN Half(SumRatings(x.l) \div Len(x.l)) ELSE NaN

\* r.get fails on an element that is not a mapping
BadReviews(x) == x.k = "list" /\ \E j \in 1..Len(x.l) : x.l[j].k # "map"

\* lines 54-56 and 64-66: len(x) of a list, 0 otherwise
ListLen(x) == IF x.k = "list" THEN Num(Len(x.l)) ELSE Num(0)

\* lines 61-63: x[0] of a non-empty list, None otherwise
FirstOf(x) == IF x.k = "list" /\ Len(x.l) > 0 THEN x.l[1] ELSE NaN

DimensionKeys == <<"width", "height", "depth">>

\* lines 41-44: json_normalize of the dimensions column; a value that is
\* not a mapping yields an empty record, i.e. missing values
FlattenDimensions(df) ==
    IF "dimensions" \notin df.cols THEN df
    ELSE IF \A i \in 1..Len(df.rows) : df.rows[i].cell["dimensions"].k # "map"
      THEN DropColumn(df, "dimensions")
    ELSE LET dim(r, j) == IF r.cell["dimensions"].k = "map"
                          THEN r.cell["dimensions"].l[j] ELSE NaN
             new == {"dimension_" \o DimensionKeys[j] : j \in 1..3}
             pos(c) == CHOOSE j \in 1..3 : c = "dimension_" \o DimensionKeys[j]
             base == DropColumn(df, "dimensions")
             cols == base.cols \cup new
         IN [cols |-> cols,
             dtype |-> [c \in cols |->
                          IF c \in new
                          THEN InferDtype([i \in 1..Len(df.rows) |-> dim(df.rows[i], pos(c))])
                          ELSE base.dtype[c]],
             rows |-> [i \in 1..Len(df.rows) |->
                         [idx |-> df.rows[i].idx,
                          cell |-> [c \in cols |->
                                      IF c \in new THEN dim(df.rows[i], pos(c))
                                      ELSE base.rows[i].cell[c]]]]]

\* lines 49-57
FlattenReviews(df) ==
    IF "reviews" \notin df.cols THEN df
    ELSE LET avg(r) == AvgReviewRating(r.cell["reviews"])
             cnt(r) == ListLen(r.cell["reviews"])
             avgs == [i \in 1..Len(df.rows) |-> avg(df.rows[i])]
             d1 == SetColumn(df, "avg_review_rating", InferDtype(avgs), avgs)
             d2 == SetColumn(d1, "num_reviews", "int64",
                             [i \in 1..Len(df.rows) |-> cnt(df.rows[i])])
         IN DropColumn(d2, "reviews")

\* lines 60-67
FlattenImages(df) ==
    IF "images" \notin df.cols THEN df
    ELSE LET first(r) == FirstOf(r.cell["images"])
             cnt(r) == ListLen(r.cell["images"])
             d1 == SetColumn(df, "main_image", "object",
                             [i \in 1..Len(df.rows) |-> first(df.rows[i])])
             d2 == SetColumn(d1, "num_images", "int64",
                             [i \in 1..Len(df.rows) |-> cnt(df.rows[i])])
         IN DropColumn(d2, "images")

\* lines 72-76 and 124-128
Tag(df, source) ==
    LET n == Len(df.rows)
    IN SetColumn(SetColumn(df, "data_source", "object", [i \in 1..n |-> source]),
                 "scraped_at", "object", [i \in 1..n |-> Timestamp])

\* lines 78-90 and 130-142: deduplicate on id, then fill, then coerce
DedupFillCoerce(df) ==
    LET dd == DropDuplicates(df, {"id"})
    IN IF dd.raised # "" THEN dd
       ELSE ValidateDataTypes(HandleMissingValues(dd.df))

\* clean_api_data: the table, or the exception that leaves the method
clean_api_data(products) ==
    IF products = <<>> THEN [raised |-> "", df |-> EmptyDF]
    ELSE LET df0 == FromRecords(products)
             d1 == FlattenDimensions(df0)
             d2 == IF "meta" \in d1.cols THEN DropColumn(d1, "meta") ELSE d1
         IN IF "reviews" \in d2.cols
               /\ \E i \in 1..Len(d2.rows) : BadReviews(d2.rows[i].cell["reviews"])
              THEN [raised |-> "AttributeError", df |-> EmptyDF]
            ELSE DedupFillCoerce(
                    Tag(StandardizeColumns(FlattenImages(FlattenReviews(d2))), ApiSource))

\* ---------------------------------------------------------- synthesized id
\* str(x) inside the f-string of line 120
Text(c) ==
    IF c.k = "str" THEN c.s
    ELSE IF c.k = "nan" THEN "nan"
    ELSE "?"

\* f"{row.get('title', '')}_{row.get('product_url', '')}": the default is
\* used only when the table has no such column
HashKey(df, r) ==
    (IF "title" \in df.cols THEN Text(r.cell["title"]) ELSE "")
    \o "_" \o
    (IF "product_url" \in df.cols THEN Text(r.cell["product_url"]) ELSE "")

HashKeys(df) == {HashKey(df, df.rows[i]) : i \in 1..Len(df.rows)}

\* the modulus of line 120
IdModulus == 1000000

\* values hash() of a text may take in some process; two of them agree
\* modulo IdModulus
RawHashes == {7, 1000007, 412}

\* clean_web_scraped_data under the hash function h of the running process
clean_web_scraped_data(products, h) ==
    IF products = <<>> THEN [raised |-> "", df |-> EmptyDF]
    ELSE LET df0 == StandardizeColumns(FromRecords(products))
             ids == [i \in 1..Len(df0.rows) |-> Num(h[HashKey(df0, df0.rows[i])] % IdModulus)]
         IN DedupFillCoerce(Tag(SetColumn(df0, "id", "int64", ids), WebSource))

\* ---------------------------------------------------------- merge_datasets
\* dtype of a column of pd.concat([a, b]): a frame without rows does not
\* take part; a column one frame lacks is filled with missing values
ConcatDtype(a, b, c) ==
    IF b.rows = <<>> \/ (c \in a.cols /\ c \in b.cols /\ a.dtype[c] = b.dtype[c])
       THEN (IF c \in a.cols THEN a.dtype[c] ELSE b.dtype[c])
    ELSE IF a.rows = <<>> THEN b.dtype[c]
    ELSE IF c \in a.cols /\ c \in b.cols THEN
        (IF {a.dtype[c], b.dtype[c]} \subseteq {"int64", "float64"} THEN "float64" ELSE "object")
    ELSE LET d == IF c \in a.cols THEN a.dtype[c] ELSE b.dtype[c]
         IN IF d = "int64" THEN "float64" ELSE IF d = "bool" THEN "object" ELSE d

\* pd.concat with join='inner': only the columns both frames have
ConcatInner(a, b) ==
    LET cols == a.cols \cap b.cols
        all == a.rows \o b.rows
    IN [cols |-> cols,
        dtype |-> [c \in cols |-> ConcatDtype(a, b, c)],
        rows |-> [i \in 1..Len(all) |->
                    [idx |-> i - 1, cell |-> [c \in cols |-> all[i].cell[c]]]]]

\* pd.concat([a, b], axis=0, ignore_index=True, sort=False)
Concat(a, b) ==
    LET cols == a.cols \cup b.cols
        all == a.rows \o b.rows
        src(i) == IF i <= Len(a.rows) THEN a ELSE b
    IN [cols |-> cols,
        dtype |-> [c \in cols |-> ConcatDtype(a, b, c)],
        rows |-> [i \in 1..Len(all) |->
                    [idx |-> i - 1,
                     cell |-> [c \in cols |->
                                 IF c \in src(i).cols THEN all[i].cell[c] ELSE NaN]]]]

\* merge_datasets without the deduplication of line 240
merge_datasets_concat_only(df_a, df_b) == [raised |-> "", df |-> Concat(df_a, df_b)]

\* merge_datasets: concatenate, then drop the rows that repeat an earlier
\* (id, data_source)
merge_datasets(df_a, df_b) == DropDuplicates(Concat(df_a, df_b), {"id", "data_source"})

\* --------------------------------------------------- add_calculated_fields
\* pd.cut(x, bins, labels) with the default right=True: bin j is the
\* interval (bins[j], bins[j+1]]; a value in no bin, or a missing value, gets
\* no label.  Bin edges are whole numbers, cells count halves.
PriceBins == <<0, 20, 50, 100>>
PriceLabels == <<"Budget", "Mid-Range", "Premium", "Luxury">>
RatingBins == <<0, 2, 3, 4, 5>>
RatingLabels == <<"Poor", "Fair", "Good", "Excellent">>

\* pd.cut with right=False: bin j is the interval [bins[j], bins[j+1])
CutLeftClosed(x, bins, labels, openEnd) ==
    IF ~IsNum(x) THEN NaN
    ELSE LET hit == {j \in 1..Len(labels) :
                        /\ x.n >= 2 * bins[j]
                        /\ (j < Len(bins) => x.n < 2 * bins[j + 1])
                        /\ (j = Len(bins) => openEnd)}
         IN IF hit = {} THEN NaN ELSE Str(labels[CHOOSE j \in hit : TRUE])

\* bins with a last edge of float('inf') are given without it
Cut(x, bins, labels, openEnd) ==
    IF ~IsNum(x) THEN NaN
    ELSE LET hit == {j \in 1..Len(labels) :
                        /\ x.n > 2 * bins[j]
                        /\ (j < Len(bins) => x.n <= 2 * bins[j + 1])
                        /\ (j = Len(bins) => openEnd)}
         IN IF hit = {} THEN NaN ELSE Str(labels[CHOOSE j \in hit : TRUE])

\* number of blank-separated words of the texts the model uses
WordTable == ("" :> 0) @@ ("a" :> 1) @@ ("b" :> 1) @@ ("Unknown" :> 1) @@ ("a b" :> 2)

\* Series.str.len() and Series.str.split().str.len(): missing for a cell
\* that is not a text
StrLen(x) == IF x.k = "str" THEN Num(Len(x.s)) ELSE NaN
WordCount(x) ==
    IF x.k # "str" THEN NaN
    ELSE IF x.s \in DOMAIN WordTable THEN Num(WordTable[x.s]) ELSE Num(1)

\* (((regular - price) / regular) * 100).round(2), kept as a count of
\* hundredths of a percent, ties to even; a zero regular price gives inf or
\* NaN, not an exception
Discount(regular, price) ==
    IF ~IsNum(regular) \/ ~IsNum(price) THEN NaN
    ELSE IF regular.n = 0 THEN (IF price.n = 0 THEN NaN ELSE Str("inf"))
    ELSE LET num == (regular.n - price.n) * 10000
             den == regular.n
             sgn == IF (num < 0) # (den < 0) THEN -1 ELSE 1
             an == IF num < 0 THEN -num ELSE num
             ad == IF den < 0 THEN -den ELSE den
             q == an \div ad
             r2 == 2 * (an % ad)
             up == r2 > ad \/ (r2 = ad /\ q % 2 = 1)
         IN [k |-> "pct", n |-> sgn * (IF up THEN q + 1 ELSE q), s |-> "", l |-> <<>>]

\* lines 265-270: the price bucket
PriceCategory(df) ==
    IF "price" \in df.cols
    THEN SetColumn(df, "price_category", "category",
                   [i \in 1..Len(df.rows) |->
                       Cut(df.rows[i].cell["price"], PriceBins, PriceLabels, TRUE)])
    ELSE df

\* lines 273-278: the rating bucket
RatingCategory(df) ==
    IF "rating" \in df.cols
    THEN SetColumn(df, "rating_category", "category",
                   [i \in 1..Len(df.rows) |->
                       Cut(df.rows[i].cell["rating"], RatingBins, RatingLabels, FALSE)])
    ELSE df

\* the title block run without looking for the title column
TitleFieldsUnguarded(df) ==
    LET t(i) == IF "title" \in df.cols THEN df.rows[i].cell["title"] ELSE NaN
    IN SetColumn(SetColumn(df, "title_length", "float64",
                           [i \in 1..Len(df.rows) |-> StrLen(t(i))]),
                 "title_word_count", "float64",
                 [i \in 1..Len(df.rows) |-> WordCount(t(i))])

\* lines 281-283: length and word count of the title
TitleFields(df) ==
    IF "title" \in df.cols
    THEN SetColumn(SetColumn(df, "title_length", "float64",
                             [i \in 1..Len(df.rows) |-> StrLen(df.rows[i].cell["title"])]),
                   "title_word_count", "float64",
                   [i \in 1..Len(df.rows) |-> WordCount(df.rows[i].cell["title"])])
    ELSE df

\* lines 286-289: length, word count and presence of the description
DescriptionFields(df) ==
    IF "description" \in df.cols
    THEN LET d(i) == df.rows[i].cell["description"]
         IN SetColumn(SetColumn(SetColumn(df,
                "description_length", "float64",
                [i \in 1..Len(df.rows) |-> StrLen(d(i))]),
                "description_word_count", "float64",
                [i \in 1..Len(df.rows) |-> WordCount(d(i))]),
                "has_description", "bool",
                [i \in 1..Len(df.rows) |-> Bool(IsNum(StrLen(d(i))) /\ StrLen(d(i)).n > 0)])
    ELSE df

\* lines 292-295: the discount, when both prices are there
DiscountField(df) ==
    IF "price" \in df.cols /\ "regularprice" \in df.cols
    THEN SetColumn(df, "discount_percentage", "float64",
                   [i \in 1..Len(df.rows) |->
                       Discount(df.rows[i].cell["regularprice"], df.rows[i].cell["price"])])
    ELSE df

\* add_calculated_fields: each block runs when its input column exists;
\* pd.cut and the subtraction need numbers, the .str accessor needs a
\* column of dtype object
add_calculated_fields(df) ==
    IF \E c \in {"price", "rating"} \cap df.cols : df.dtype[c] \notin {"int64", "float64"}
      THEN [raised |-> "TypeError", df |-> df]
    ELSE IF \E c \in {"title", "description"} \cap df.cols : df.dtype[c] # "object"
      THEN [raised |-> "AttributeError", df |-> RatingCategory(PriceCategory(df))]
    ELSE [raised |-> "",
          df |-> DiscountField(DescriptionFields(TitleFields(
                     RatingCategory(PriceCategory(df)))))]

\* ----------------------------------------------------- generate_statistics
RECURSIVE SumSeq(_)
SumSeq(s) == IF s = <<>> THEN 0 ELSE Head(s) + SumSeq(Tail(s))

\* mean, median, min, max of a numeric column, missing values skipped; the
\* mean is kept as sum and count (both 0-count and NaN are "nan")
Describe(vals) ==
    LET s == SortedNums(vals)
    IN IF s = <<>> THEN [nan |-> TRUE, sum |-> 0, cnt |-> 0, median |-> NaN, min |-> NaN, max |-> NaN]
       ELSE [nan |-> FALSE, sum |-> SumSeq(s), cnt |-> Len(s), median |-> Median(vals),
             min |-> Half(s[1]), max |-> Half(s[Len(s)])]

\* Series.value_counts(): how often each non-missing value occurs
ValueCounts(vals) ==
    LET present == {vals[i] : i \in {j \in 1..Len(vals) : ~IsNa(vals[j])}}
    IN [v \in present |-> Cardinality({i \in 1..Len(vals) : vals[i] = v})]

\* generate_statistics: the blocks present and their content
generate_statistics(df) ==
    LET inStock == IF "in_stock" \in df.cols
                   THEN {i \in 1..Len(df.rows) :
                            ~IsNa(df.rows[i].cell["in_stock"])
                            /\ ToBool(df.rows[i].cell["in_stock"]).n = 1}
                   ELSE {}
    IN [total_products |-> Len(df.rows),
        total_columns |-> Cardinality(df.cols),
        missing_values |-> [c \in df.cols |->
                              Cardinality({i \in 1..Len(df.rows) : IsNa(df.rows[i].cell[c])})],
        blocks |-> ({"price_stats" : c \in {"price"} \cap df.cols}
                    \cup {"rating_stats" : c \in {"rating"} \cap df.cols}
                    \cup {"category_distribution" : c \in {"category"} \cap df.cols}
                    \cup {"data_source_distribution" : c \in {"data_source"} \cap df.cols}
                    \cup {"stock_stats" : c \in {"in_stock"} \cap df.cols}),
        price_stats |-> IF "price" \in df.cols THEN Describe(Column(df, "price"))
                        ELSE Describe(<<>>),
        rating_stats |-> IF "rating" \in df.cols THEN Describe(Column(df, "rating"))
                         ELSE Describe(<<>>),
        data_source_distribution |->
            IF "data_source" \in df.cols THEN ValueCounts(Column(df, "data_source")) ELSE <<>>,
        stock_stats |-> [in_stock |-> Cardinality(inStock),
                         out_of_stock |-> Len(df.rows) - Cardinality(inStock)]]

\* ------------------------------------------------------------ raw inputs
\* a raw record with the given id cell, or without the key when id is absent
WithId(idc, rest) == IF idc = Str("<absent>") THEN rest ELSE ("id" :> idc) @@ rest

\* API records whose ids are whole numbers, numerals, other texts, null or absent
IdentityRecords ==
    {WithId(i, "title" :> t) :
        i \in {Num(1), Num(2), Str("1"), Str("x"), NaN, Str("<absent>")},
        t \in {Str("a"), Str("b")}}

\* API records with a measure (price) and another numeric column (weight)
MeasureRecords ==
    {("id" :> i) @@ ("price" :> p) @@ ("weight" :> w) :
        i \in {Num(1), Num(2)},
        p \in {NaN, Num(20), Str("abc")},
        w \in {NaN, Num(4)}}

\* API records with identity-bearing text (brand), other text (sku) and a flag
TextRecords ==
    {("id" :> i) @@ ("brand" :> b) @@ ("sku" :> kf[1]) @@ ("in_stock" :> kf[2]) :
        i \in {Num(1), Num(2)},
        b \in {NaN, Str("X")},
        kf \in {<<NaN, NaN>>, <<Str("s"), Bool(TRUE)>>, <<NaN, Bool(FALSE)>>}}

\* API records with nested substructures
NestedRecords ==
    {("id" :> i) @@ ("reviews" :> rd[1]) @@ ("dimensions" :> rd[2])
        @@ ("images" :> List(<<Str("img")>>)) @@ ("meta" :> Str("m")) :
        i \in {Num(1), Num(2)},
        rd \in {<<List(<<Review(4), Review(2)>>), Map(<<Num(1), Num(2), Num(3)>>)>>,
                <<List(<<ReviewNoRating>>), NaN>>,
                <<List(<<>>), Map(<<Num(1), Num(2), Num(3)>>)>>,
                <<List(<<Str("oops")>>), NaN>>,
                <<NaN, NaN>>}}

\* API records with a price at, between and beyond the bucket edges
PriceRecords ==
    {("id" :> i) @@ ("price" :> p) :
        i \in {Num(1), Num(2)},
        p \in {Num(0), Num(20), Num(50), Num(100), Num(150)}}

\* API records that bring columns named like the derived ones
DerivedRecords ==
    {("id" :> i) @@ ("title" :> Str("a")) @@ ("price" :> Num(20))
        @@ ("regularPrice" :> Num(40)) @@ ("price_category" :> pc0)
        @@ ("title_length" :> tl) :
        i \in {Num(1), Num(2)},
        pc0 \in {Str("Budget"), Str("Clearance")},
        tl \in {Num(1), Num(9)}}

\* API records with a rating field and a description, each with or
\* without a value
RatingRecords ==
    {("id" :> i) @@ ("rating" :> r) @@ ("description" :> d) :
        i \in {Num(1), Num(2)},
        r \in {NaN, Num(4)},
        d \in {NaN, Str("a b")}}

ApiInputs ==
    SeqUpTo(IdentityRecords, MaxIdentity) \cup SeqUpTo(MeasureRecords, MaxApi)
    \cup SeqUpTo(TextRecords, MaxApi) \cup SeqUpTo(NestedRecords, MaxApi)
    \cup SeqUpTo(PriceRecords, MaxApi) \cup SeqUpTo(DerivedRecords, MaxApi)
    \cup SeqUpTo(RatingRecords, MaxApi)

\* crawl records: no natural id
WebRecords ==
    {("title" :> t) @@ ("product_url" :> Str("u")) @@ ("price" :> p) :
        t \in {Str("a"), Str("b")}, p \in {NaN, Num(10)}}

WebInputs == SeqUpTo(WebRecords, MaxWeb)

\* the runs drawn: every API input with a crawl that yields nothing or one
\* record, and every crawl input with an API that yields nothing or one record
ApiFew == {<<>>, <<("id" :> Num(1)) @@ ("title" :> Str("a")) @@ ("brand" :> Str("X"))>>}
WebFew == {<<>>, <<("title" :> Str("b")) @@ ("product_url" :> Str("u")) @@ ("price" :> Num(10))>>}
Inputs == (ApiInputs \X WebFew) \cup (ApiFew \X WebInputs)

\* ---------------------------------------------------------- state machine
VARIABLES pc, api_raw, web_raw, pyhash, df_api, df_web, df_web_other, df_merged,
          df_again, df_enriched, stats, raised

\* run_full_pipeline: the events of the core stages (calls), what
\* run_data_cleaning and run_export returned, what the pipeline returned
VARIABLES calls, df_final, export_paths, returned

pipeVars == <<calls, df_final, export_paths, returned>>

\* one call of a scraper method: the method and where the call stands, its
\* arguments, its locals, the calls it made to the layer below (requests),
\* the products the pages held (fetched), the outcomes the server gave
\* (responses) and what _make_request returned (result)
VARIABLES method, at, max_products, max_pages, all_products, skip, page_count,
          current_url, requests, fetched, retry, responses, result

scraperVars == <<method, at, max_products, max_pages, all_products, skip, page_count,
                 current_url, requests, fetched, retry, responses, result>>

vars == <<pc, api_raw, web_raw, pyhash, df_api, df_web, df_web_other, df_merged,
          df_again, df_enriched, stats, raised, pipeVars, scraperVars>>

\* max_pages = None
NoMaxPages == -1

\* the locals of a scraper method when its body starts
ScraperLocals ==
    /\ at = "running"
    /\ all_products = <<>>
    /\ skip = 0
    /\ page_count = 0
    /\ current_url = "page-1"
    /\ requests = 0
    /\ fetched = <<>>
    /\ retry = 0
    /\ responses = <<>>
    /\ result = "unset"

\* no scraper method is under call
ScraperIdle ==
    /\ method = ""
    /\ max_products = 0
    /\ max_pages = NoMaxPages
    /\ ScraperLocals

\* no pipeline run is under way
PipelineIdle ==
    /\ calls = <<>>
    /\ df_final = "unset"
    /\ export_paths = "unset"
    /\ returned = ""

NoStats == [total_products |-> -1]

\* no exception has left an operation
NoException == [op |-> "", exc |-> ""]

\* the state after operation op returned (raisedBy = "") or raised
Outcome(op, raisedBy, okpc) ==
    /\ raised' = (IF raisedBy = "" THEN NoException ELSE [op |-> op, exc |-> raisedBy])
    /\ pc' = (IF raisedBy = "" THEN okpc ELSE "failed")

Init ==
    /\ pc = "start"
    /\ \E in \in Inputs : api_raw = in[1] /\ web_raw = in[2]
    /\ pyhash = <<>>
    /\ df_api = EmptyDF
    /\ df_web = EmptyDF
    /\ df_web_other = EmptyDF
    /\ df_merged = EmptyDF
    /\ df_again = EmptyDF
    /\ df_enriched = EmptyDF
    /\ stats = NoStats
    /\ raised = NoException
    /\ PipelineIdle
    /\ ScraperIdle

\* main.py line 96: df_api = clean_api_data(api_products)
CleanApi ==
    /\ pc = "start"
    /\ LET r == clean_api_data(api_raw)
       IN /\ Outcome("clean_api_data", r.raised, "api_cleaned")
          /\ df_api' = (IF r.raised = "" THEN r.df ELSE df_api)
    /\ UNCHANGED <<api_raw, web_raw, pyhash, df_web, df_web_other, df_merged,
                   df_again, df_enriched, stats>>
    /\ UNCHANGED <<pipeVars, scraperVars>>

\* main.py line 101: df_web = clean_web_scraped_data(web_products); the
\* interpreter's hash of each key text is whatever this process makes it
CleanWeb ==
    /\ pc = "api_cleaned"
    /\ \E h \in [HashKeys(StandardizeColumns(FromRecords(web_raw))) -> RawHashes] :
          LET r == clean_web_scraped_data(web_raw, h)
          IN /\ pyhash' = h
             /\ Outcome("clean_web_scraped_data", r.raised, "web_cleaned")
             /\ df_web' = (IF r.raised = "" THEN r.df ELSE df_web)
    /\ UNCHANGED <<api_raw, web_raw, df_api, df_web_other, df_merged, df_again,
                   df_enriched, stats>>
    /\ UNCHANGED <<pipeVars, scraperVars>>

\* the same crawl normalized by another interpreter process, whose hash of
\* each key text is again whatever that process makes it
CleanWebOtherProcess ==
    /\ pc = "web_cleaned"
    /\ \E h \in [HashKeys(StandardizeColumns(FromRecords(web_raw))) -> RawHashes] :
          LET r == clean_web_scraped_data(web_raw, h)
          IN /\ Outcome("clean_web_scraped_data", r.raised, "web_cleaned_twice")
             /\ df_web_other' = (IF r.raised = "" THEN r.df ELSE df_web_other)
    /\ UNCHANGED <<api_raw, web_raw, pyhash, df_api, df_web, df_merged,
                   df_again, df_enriched, stats>>
    /\ UNCHANGED <<pipeVars, scraperVars>>

\* main.py line 106: df_merged = merge_datasets(df_api, df_web)
Merge ==
    /\ pc = "web_cleaned"
    /\ LET r == merge_datasets(df_api, df_web)
       IN /\ Outcome("merge_datasets", r.raised, "merged")
          /\ df_merged' = (IF r.raised = "" THEN r.df ELSE df_merged)
    /\ UNCHANGED <<api_raw, web_raw, pyhash, df_api, df_web, df_web_other,
                   df_again, df_enriched, stats>>
    /\ UNCHANGED <<pipeVars, scraperVars>>

\* the merged table fed back through merge_datasets against itself
MergeAgain ==
    /\ pc = "merged"
    /\ LET r == merge_datasets(df_merged, df_merged)
       IN /\ Outcome("merge_datasets", r.raised, "merged_again")
          /\ df_again' = (IF r.raised = "" THEN r.df ELSE df_again)
    /\ UNCHANGED <<api_raw, web_raw, pyhash, df_api, df_web, df_web_other,
                   df_merged, df_enriched, stats>>
    /\ UNCHANGED <<pipeVars, scraperVars>>

\* main.py line 111: df_enriched = add_calculated_fields(df_merged); the
\* columns are added to the table passed in, which is the one returned
Enrich ==
    /\ pc = "merged"
    /\ LET r == add_calculated_fields(df_merged)
       IN /\ Outcome("add_calculated_fields", r.raised, "enriched")
          /\ df_merged' = r.df
          /\ df_enriched' = (IF r.raised = "" THEN r.df ELSE df_enriched)
    /\ UNCHANGED <<api_raw, web_raw, pyhash, df_api, df_web, df_web_other,
                   df_again, stats>>
    /\ UNCHANGED <<pipeVars, scraperVars>>

\* the enriched table fed back through add_calculated_fields
EnrichAgain ==
    /\ pc = "enriched"
    /\ LET r == add_calculated_fields(df_enriched)
       IN /\ Outcome("add_calculated_fields", r.raised, "enriched_again")
          /\ df_again' = (IF r.raised = "" THEN r.df ELSE df_again)
    /\ UNCHANGED <<api_raw, web_raw, pyhash, df_api, df_web, df_web_other,
                   df_merged, df_enriched, stats>>
    /\ UNCHANGED <<pipeVars, scraperVars>>

\* main.py line 156: stats = generate_statistics(df)
Statistics ==
    /\ pc = "enriched"
    /\ stats' = generate_statistics(df_enriched)
    /\ pc' = "done"
    /\ UNCHANGED <<api_raw, web_raw, pyhash, df_api, df_web, df_web_other,
                   df_merged, df_again, df_enriched, raised>>
    /\ UNCHANGED <<pipeVars, scraperVars>>

Next ==
    \/ CleanApi \/ CleanWeb \/ CleanWebOtherProcess \/ Merge \/ MergeAgain
    \/ Enrich \/ EnrichAgain \/ Statistics

Spec == Init /\ [][Next]_vars

\* ------------------------------------------------------ run_full_pipeline
\* what an extraction may hand to the pipeline
PipelineApiResults ==
    ApiFew
    \cup {<<("title" :> Str("b"))>>,
          <<("id" :> Num(1)) @@ ("reviews" :> List(<<Str("oops")>>))>>,
          <<("id" :> Num(1)) @@ ("price" :> Num(0)),
            ("id" :> Num(2)) @@ ("price" :> Num(20))>>}
PipelineWebResults == WebFew

\* a core stage was called and returned, or raised
Called(stage, raisedBy) ==
    calls \o <<[stage |-> stage, event |-> "call"],
               [stage |-> stage, event |-> IF raisedBy = "" THEN "return" ELSE "raise"]>>

\* the except clause of run_data_cleaning (lines 116-118): return None
CleaningStep(op, raisedBy, okpc) ==
    /\ calls' = Called(op, raisedBy)
    /\ raised' = (IF raisedBy = "" THEN raised ELSE [op |-> op, exc |-> raisedBy])
    /\ pc' = (IF raisedBy = "" THEN okpc ELSE "cleaned")
    /\ df_final' = (IF raisedBy = "" THEN df_final ELSE "None")

PipelineInit ==
    /\ pc = "pipeline"
    /\ api_raw = <<>> /\ web_raw = <<>>
    /\ pyhash = <<>>
    /\ df_api = EmptyDF /\ df_web = EmptyDF /\ df_web_other = EmptyDF
    /\ df_merged = EmptyDF /\ df_again = EmptyDF /\ df_enriched = EmptyDF
    /\ stats = NoStats
    /\ raised = NoException
    /\ PipelineIdle
    /\ ScraperIdle

\* lines 199 and 30-50: api_products = run_api_extraction(...); an
\* exception of the scraper is caught and gives []
RunApiExtraction ==
    /\ pc = "pipeline"
    /\ \/ \E products \in PipelineApiResults : api_raw' = products /\ raised' = raised
       \/ api_raw' = <<>> /\ raised' = [op |-> "get_all_products", exc |-> "Exception"]
    /\ pc' = "api_extracted"
    /\ UNCHANGED <<web_raw, pyhash, df_api, df_web, df_web_other, df_merged,
                   df_again, df_enriched, stats, pipeVars>>
    /\ UNCHANGED scraperVars

\* lines 202-205 and 52-77: web_products = run_web_scraping(...)
RunWebScraping ==
    /\ pc = "api_extracted"
    /\ \/ \E products \in PipelineWebResults : web_raw' = products /\ raised' = raised
       \/ web_raw' = <<>> /\ raised' = [op |-> "scrape_all_products", exc |-> "Exception"]
    /\ pc' = "extracted"
    /\ UNCHANGED <<api_raw, pyhash, df_api, df_web, df_web_other, df_merged,
                   df_again, df_enriched, stats, pipeVars>>
    /\ UNCHANGED scraperVars

\* lines 210-212: no data from any source
ReturnNoData ==
    /\ pc = "extracted"
    /\ api_raw = <<>> /\ web_raw = <<>>
    /\ returned' = "False"
    /\ pc' = "returned"
    /\ UNCHANGED <<api_raw, web_raw, pyhash, df_api, df_web, df_web_other, df_merged,
                   df_again, df_enriched, stats, raised, calls, df_final, export_paths>>
    /\ UNCHANGED scraperVars

\* run_data_cleaning going from clean_api_data straight to merge_datasets
CleaningApiThenMerge ==
    /\ pc = "extracted"
    /\ ~(api_raw = <<>> /\ web_raw = <<>>)
    /\ LET r == clean_api_data(api_raw)
       IN /\ CleaningStep("clean_api_data", r.raised, "cleaning_merge")
          /\ df_api' = (IF r.raised = "" THEN r.df ELSE df_api)
    /\ UNCHANGED <<api_raw, web_raw, pyhash, df_web, df_web_other, df_merged,
                   df_again, df_enriched, stats, export_paths, returned>>
    /\ UNCHANGED scraperVars

\* lines 215 and 96: run_data_cleaning starts with clean_api_data
CleaningApi ==
    /\ pc = "extracted"
    /\ ~(api_raw = <<>> /\ web_raw = <<>>)
    /\ LET r == clean_api_data(api_raw)
       IN /\ CleaningStep("clean_api_data", r.raised, "cleaning_web")
          /\ df_api' = (IF r.raised = "" THEN r.df ELSE df_api)
    /\ UNCHANGED <<api_raw, web_raw, pyhash, df_web, df_web_other, df_merged,
                   df_again, df_enriched, stats, export_paths, returned>>
    /\ UNCHANGED scraperVars

\* line 101
CleaningWeb ==
    /\ pc = "cleaning_web"
    /\ \E h \in [HashKeys(StandardizeColumns(FromRecords(web_raw))) -> RawHashes] :
          LET r == clean_web_scraped_data(web_raw, h)
          IN /\ pyhash' = h
             /\ CleaningStep("clean_web_scraped_data", r.raised, "cleaning_merge")
             /\ df_web' = (IF r.raised = "" THEN r.df ELSE df_web)
    /\ UNCHANGED <<api_raw, web_raw, df_api, df_web_other, df_merged,
                   df_again, df_enriched, stats, export_paths, returned>>
    /\ UNCHANGED scraperVars

\* line 106
CleaningMerge ==
    /\ pc = "cleaning_merge"
    /\ LET r == merge_datasets(df_api, df_web)
       IN /\ CleaningStep("merge_datasets", r.raised, "cleaning_enrich")
          /\ df_merged' = (IF r.raised = "" THEN r.df ELSE df_merged)
    /\ UNCHANGED <<api_raw, web_raw, pyhash, df_api, df_web, df_web_other,
                   df_again, df_enriched, stats, export_paths, returned>>
    /\ UNCHANGED scraperVars

\* lines 111-114: add_calculated_fields, then return df_enriched
CleaningEnrich ==
    /\ pc = "cleaning_enrich"
    /\ LET r == add_calculated_fields(df_merged)
       IN /\ calls' = Called("add_calculated_fields", r.raised)
          /\ raised' = (IF r.raised = "" THEN raised
                        ELSE [op |-> "add_calculated_fields", exc |-> r.raised])
          /\ df_final' = (IF r.raised = "" THEN "DataFrame" ELSE "None")
          /\ df_merged' = r.df
          /\ df_enriched' = (IF r.raised = "" THEN r.df ELSE df_enriched)
    /\ pc' = "cleaned"
    /\ UNCHANGED <<api_raw, web_raw, pyhash, df_api, df_web, df_web_other,
                   df_again, stats, export_paths, returned>>
    /\ UNCHANGED scraperVars

\* lines 217-219: cleaning failed or produced an empty dataset
ReturnCleaningFailed ==
    /\ pc = "cleaned"
    /\ df_final = "None" \/ Len(df_enriched.rows) = 0
    /\ returned' = "False"
    /\ pc' = "returned"
    /\ UNCHANGED <<api_raw, web_raw, pyhash, df_api, df_web, df_web_other, df_merged,
                   df_again, df_enriched, stats, raised, calls, df_final, export_paths>>
    /\ UNCHANGED scraperVars

\* lines 222 and 133-161: run_export writes the three files, generates the
\* statistics and writes them; an exception of a writer gives None
RunExport ==
    /\ pc = "cleaned"
    /\ ~(df_final = "None" \/ Len(df_enriched.rows) = 0)
    /\ \/ /\ export_paths' = "None"
          /\ raised' = [op |-> "export_to_csv", exc |-> "Exception"]
          /\ UNCHANGED <<calls, stats>>
       \/ /\ calls' = Called("generate_statistics", "")
          /\ stats' = generate_statistics(df_enriched)
          /\ \/ export_paths' = "paths" /\ raised' = raised
             \/ /\ export_paths' = "None"
                /\ raised' = [op |-> "export_to_json", exc |-> "Exception"]
    /\ pc' = "exported"
    /\ UNCHANGED <<api_raw, web_raw, pyhash, df_api, df_web, df_web_other, df_merged,
                   df_again, df_enriched, df_final, returned>>
    /\ UNCHANGED scraperVars

\* run_full_pipeline returning True whatever run_export returned
ReturnTrueAfterExport ==
    /\ pc = "exported"
    /\ returned' = "True"
    /\ pc' = "returned"
    /\ UNCHANGED <<api_raw, web_raw, pyhash, df_api, df_web, df_web_other, df_merged,
                   df_again, df_enriched, stats, raised, calls, df_final, export_paths>>
    /\ UNCHANGED scraperVars

\* lines 224-226 and 247: False when the export failed, True otherwise
ReturnAfterExport ==
    /\ pc = "exported"
    /\ returned' = (IF export_paths = "None" THEN "False" ELSE "True")
    /\ pc' = "returned"
    /\ UNCHANGED <<api_raw, web_raw, pyhash, df_api, df_web, df_web_other, df_merged,
                   df_again, df_enriched, stats, raised, calls, df_final, export_paths>>
    /\ UNCHANGED scraperVars

PipelineNext ==
    \/ RunApiExtraction \/ RunWebScraping \/ ReturnNoData
    \/ CleaningApi \/ CleaningWeb \/ CleaningMerge \/ CleaningEnrich
    \/ ReturnCleaningFailed \/ RunExport \/ ReturnAfterExport

PipelineSpec == PipelineInit /\ [][PipelineNext]_vars

\* ---------------------------------------------------------------- scrapers
RETRY_TIMES == 3

\* limit = 100 of get_all_products
Limit == 100

\* what one HTTP request of DummyJSONScraper._make_request may meet: a
\* status (200 with or without a body json() can read, 429, 404, another
\* one), a timeout, a connection error, any other exception
ServerOutcomes ==
    {"200", "200 unreadable", "429", "404", "500", "Timeout", "ConnectionError", "Exception"}

\* the outcomes after which _make_request calls itself when retry < RETRY_TIMES
Retried == {"429", "500", "Timeout", "ConnectionError"}

\* what get_products_paginated may hand back: the default of a failed
\* request, a body with some products and a total (0 when absent), a body
\* get_all_products cannot read
PageOutcomes ==
    {[shape |-> "failed", n |-> 0, total |-> 0], [shape |-> "malformed", n |-> 0, total |-> 0]}
    \cup {[shape |-> "body", n |-> n, total |-> t] :
            n \in 0..MaxPageSize, t \in 0..(MaxProducts + 1)}

\* the k products of the page fetched by request number r
PageProducts(r, k) == [i \in 1..k |-> <<r, i>>]

\* all_products[:max_products] left out
NoTruncate(sq, k) == sq

\* the first k elements
Truncate(sq, k) == IF Len(sq) <= k THEN sq ELSE SubSeq(sq, 1, k)

\* page_count stops here when nothing else ends the crawl
MaxPageCount == MaxPages + 2

ScraperInit ==
    /\ pc = "scraper"
    /\ api_raw = <<>> /\ web_raw = <<>>
    /\ pyhash = <<>>
    /\ df_api = EmptyDF /\ df_web = EmptyDF /\ df_web_other = EmptyDF
    /\ df_merged = EmptyDF /\ df_again = EmptyDF /\ df_enriched = EmptyDF
    /\ stats = NoStats
    /\ raised = NoException
    /\ PipelineIdle
    /\ ScraperLocals
    /\ \/ /\ method = "_make_request"
          /\ max_products = 0 /\ max_pages = NoMaxPages
       \/ /\ method = "get_all_products"
          /\ max_products \in 0..MaxProducts /\ max_pages = NoMaxPages
       \/ /\ method = "scrape_all_products"
          /\ max_products \in 0..MaxProducts
          /\ max_pages \in {NoMaxPages} \cup 0..MaxPages

\* what a scraper step leaves alone
CoreUnchanged ==
    UNCHANGED <<pc, api_raw, web_raw, pyhash, df_api, df_web, df_web_other, df_merged,
                df_again, df_enriched, stats, raised, pipeVars, method, max_products,
                max_pages>>

\* _make_request retrying while retry <= RETRY_TIMES
RequestOneMoreRetry ==
    /\ method = "_make_request" /\ at = "running"
    /\ \E o \in ServerOutcomes :
          /\ responses' = Append(responses, o)
          /\ requests' = requests + 1
          /\ IF o \in Retried /\ retry <= RETRY_TIMES
             THEN retry' = retry + 1 /\ at' = "running" /\ result' = result
             ELSE /\ retry' = retry
                  /\ at' = "returned"
                  /\ result' = (IF o = "200" THEN "json" ELSE "None")
    /\ UNCHANGED <<all_products, skip, page_count, current_url, fetched>>
    /\ CoreUnchanged

\* api_scraper.py lines 37-82: one HTTP request of _make_request and what
\* the method does with its outcome: return, or call itself with retry + 1
Request ==
    /\ method = "_make_request" /\ at = "running"
    /\ \E o \in ServerOutcomes :
          /\ responses' = Append(responses, o)
          /\ requests' = requests + 1
          /\ IF o \in Retried /\ retry < RETRY_TIMES
             THEN retry' = retry + 1 /\ at' = "running" /\ result' = result
             ELSE /\ retry' = retry
                  /\ at' = "returned"
                  /\ result' = (IF o = "200" THEN "json" ELSE "None")
    /\ UNCHANGED <<all_products, skip, page_count, current_url, fetched>>
    /\ CoreUnchanged

\* the loop of get_all_products going on after a page without products
FetchPageContinueOnEmpty ==
    /\ method = "get_all_products" /\ at = "running"
    /\ Len(all_products) < max_products
    /\ \E page \in PageOutcomes :
          LET products == PageProducts(requests + 1, page.n)
              more == all_products \o products
          IN /\ requests' = requests + 1
             /\ fetched' = fetched \o products
             /\ IF page.shape = "malformed"
                   THEN at' = "raised" /\ UNCHANGED <<all_products, skip>>
                ELSE IF Len(more) >= max_products
                   THEN /\ all_products' = Truncate(more, max_products)
                        /\ at' = "returned" /\ skip' = skip
                ELSE IF page.n > 0 /\ Len(more) >= page.total
                   THEN all_products' = more /\ at' = "returned" /\ skip' = skip
                ELSE all_products' = more /\ at' = "running" /\ skip' = skip + Limit
    /\ UNCHANGED <<page_count, current_url, retry, responses, result>>
    /\ CoreUnchanged

\* api_scraper.py lines 154-177: one iteration of the loop of
\* get_all_products
FetchPage ==
    /\ method = "get_all_products" /\ at = "running"
    /\ Len(all_products) < max_products
    /\ \E page \in PageOutcomes :
          LET products == PageProducts(requests + 1, page.n)
              more == all_products \o products
          IN /\ requests' = requests + 1
             /\ fetched' = fetched \o products
             /\ IF page.shape = "malformed"
                   THEN at' = "raised" /\ UNCHANGED <<all_products, skip>>
                ELSE IF page.n = 0
                   THEN at' = "returned" /\ UNCHANGED <<all_products, skip>>
                ELSE IF Len(more) >= max_products
                   THEN /\ all_products' = Truncate(more, max_products)
                        /\ at' = "returned" /\ skip' = skip
                ELSE IF Len(more) >= page.total
                   THEN all_products' = more /\ at' = "returned" /\ skip' = skip
                ELSE all_products' = more /\ at' = "running" /\ skip' = skip + Limit
    /\ UNCHANGED <<page_count, current_url, retry, responses, result>>
    /\ CoreUnchanged

\* api_scraper.py lines 154 and 179-180: the loop condition is false
ApiLoopExit ==
    /\ method = "get_all_products" /\ at = "running"
    /\ Len(all_products) >= max_products
    /\ at' = "returned"
    /\ UNCHANGED <<all_products, skip, page_count, current_url, requests, fetched,
                   retry, responses, result>>
    /\ CoreUnchanged

\* web_scraper.py lines 265-307: one iteration of the loop of
\* scrape_all_products: the page limit, the list page (requests counts the
\* list pages scraped), the detail page of each product, the next-page link
ScrapePage ==
    /\ method = "scrape_all_products" /\ at = "running"
    /\ current_url # "None" /\ Len(all_products) < max_products
    /\ page_count < MaxPageCount
    /\ page_count' = page_count + 1
    /\ IF max_pages \notin {NoMaxPages, 0} /\ page_count + 1 > max_pages
       THEN at' = "returned" /\ UNCHANGED <<all_products, current_url, requests>>
       ELSE /\ requests' = requests + 1
            /\ \E urls \in 0..MaxPageSize :
                  IF urls = 0
                  THEN at' = "returned" /\ UNCHANGED <<all_products, current_url>>
                  ELSE \E details \in [1..urls -> BOOLEAN], soup \in {"None", "last", "next"} :
                          LET Scraped(product) == details[product[2]]
                              got == SelectSeq(PageProducts(page_count + 1, urls), Scraped)
                          IN /\ all_products' = Truncate(all_products \o got, max_products)
                             /\ at' = (IF soup = "None" THEN "returned" ELSE "running")
                             /\ current_url' = (IF soup = "None" THEN current_url
                                                ELSE IF soup = "last" THEN "None"
                                                ELSE "next")
    /\ UNCHANGED <<skip, fetched, retry, responses, result>>
    /\ CoreUnchanged

\* web_scraper.py lines 265 and 309-315: the loop condition is false
WebLoopExit ==
    /\ method = "scrape_all_products" /\ at = "running"
    /\ current_url = "None" \/ Len(all_products) >= max_products
    /\ at' = "returned"
    /\ UNCHANGED <<all_products, skip, page_count, current_url, requests, fetched,
                   retry, responses, result>>
    /\ CoreUnchanged

ScraperNext == Request \/ FetchPage \/ ApiLoopExit \/ ScrapePage \/ WebLoopExit

ScraperSpec == ScraperInit /\ [][ScraperNext]_vars

\* a call that can take a step takes one: the interpreter runs the method
ScraperFairSpec == ScraperSpec /\ WF_vars(ScraperNext)

\* ------------------------------------------------------------ vocabulary
\* the composite key of a row
KeyOf(r) == <<r.cell["id"], r.cell["data_source"]>>

\* the cells of the rows, in order, index labels left out
Cells(df) == [i \in 1..Len(df.rows) |-> df.rows[i].cell]

\* out is what is left of the concatenation of a and b when, of the rows
\* that share a composite key, only the first one is kept
KeepsFirstOfEachKey(a, b, out) ==
    LET cat == Concat(a, b)
        first(i) == \A j \in 1..(i - 1) : KeyOf(cat.rows[j]) # KeyOf(cat.rows[i])
    IN /\ \A i, j \in 1..Len(out.rows) : i # j => KeyOf(out.rows[i]) # KeyOf(out.rows[j])
       /\ \A i \in 1..Len(cat.rows) :
             first(i) <=> (\E k \in 1..Len(out.rows) : out.rows[k] = cat.rows[i])
       /\ \A k \in 1..Len(out.rows) : \E i \in 1..Len(cat.rows) : out.rows[k] = cat.rows[i]

\* C1: after merge_datasets no two rows share (id, data_source), and of the
\* rows of the concatenation that share a pair the first one is the one
\* kept; stated for the merge of the two normalized tables and for the
\* merge of the merged table with itself
C1_MergeKeepsFirstOfEachKey ==
    /\ pc = "merged" => KeepsFirstOfEachKey(df_api, df_web, df_merged)
    /\ pc = "merged_again" => KeepsFirstOfEachKey(df_merged, df_merged, df_again)

\* a merge of two non-empty normalized tables that dropped a row whose
\* content differs from the row kept
C1_Witness ==
    /\ pc = "merged"
    /\ df_api.rows # <<>> /\ df_web.rows # <<>>
    /\ \E i, j \in 1..Len(df_api.rows) :
          /\ i < j
          /\ KeyOf(df_api.rows[i]) = KeyOf(df_api.rows[j])
          /\ df_api.rows[i].cell # df_api.rows[j].cell
    /\ Len(df_merged.rows) < Len(df_api.rows) + Len(df_web.rows)

\* C2: merge is idempotent: merge_datasets(M, M) of a merged table M has
\* the rows of M, identified by (id, data_source): as many rows, the same keys
C2_MergeIdempotent ==
    pc = "merged_again" =>
        /\ Len(df_again.rows) = Len(df_merged.rows)
        /\ {KeyOf(df_again.rows[i]) : i \in 1..Len(df_again.rows)}
             = {KeyOf(df_merged.rows[i]) : i \in 1..Len(df_merged.rows)}

\* a merged table with rows of both sources was merged with itself
C2_Witness ==
    /\ pc = "merged_again"
    /\ \E i, j \in 1..Len(df_merged.rows) :
          /\ df_merged.rows[i].cell["data_source"] = ApiSource
          /\ df_merged.rows[j].cell["data_source"] = WebSource

\* C4: empty input composes through the core: a normalizer given no record
\* returns a table without rows and does not raise, and with both inputs
\* empty merge, enrichment and statistics complete, the tables have no row
\* and total_products is 0
C4_EmptyComposes ==
    /\ api_raw = <<>> => raised.op # "clean_api_data" /\ df_api.rows = <<>>
    /\ web_raw = <<>> => raised.op # "clean_web_scraped_data" /\ df_web.rows = <<>>
    /\ (api_raw = <<>> /\ web_raw = <<>>) =>
          /\ raised = NoException
          /\ df_merged.rows = <<>> /\ df_enriched.rows = <<>>
          /\ pc = "done" => stats.total_products = 0

\* both inputs were empty and the statistics were produced
C4_Witness ==
    /\ api_raw = <<>> /\ web_raw = <<>>
    /\ pc = "done" /\ stats.total_products = 0 /\ raised = NoException

\* C3: merge_datasets(A, empty) equals A: the same columns, the same rows in
\* the same order with the same cell values
C3_MergeWithEmptyIsIdentity ==
    (pc = "merged" /\ web_raw = <<>>) =>
        /\ df_merged.cols = df_api.cols
        /\ Cells(df_merged) = Cells(df_api)

\* the ids of a table, in row order
Ids(df) == [i \in 1..Len(df.rows) |-> df.rows[i].cell["id"]]

\* no value occurs twice in the sequence
NoRepeat(sq) == \A i, j \in 1..Len(sq) : i # j => sq[i] # sq[j]

\* C5: in the table a normalizer returns, the id column holds no value twice
C5_NormalizedIdUnique == NoRepeat(Ids(df_api)) /\ NoRepeat(Ids(df_web))

\* the raw id of the i-th record of the input, missing when it has none
RawCell(raw, i, c) == IF c \in DOMAIN raw[i] THEN raw[i][c] ELSE NaN

\* C6: when the input of clean_api_data has several records with the same
\* id, the output has exactly one row for that id, with the content of the
\* earliest such record, and the surviving rows keep their input order
C6_DedupKeepsFirstStable ==
    (pc # "start" /\ raised.op # "clean_api_data") =>
        /\ \A i, j \in 1..Len(api_raw) :
              (i < j /\ ~IsNa(RawCell(api_raw, i, "id"))
                     /\ RawCell(api_raw, i, "id") = RawCell(api_raw, j, "id")
                     /\ (\A h \in 1..(i - 1) : RawCell(api_raw, h, "id") # RawCell(api_raw, i, "id")))
              => /\ Cardinality({k \in 1..Len(df_api.rows) :
                        df_api.rows[k].cell["id"] = ToNumeric(RawCell(api_raw, i, "id"))}) = 1
                 /\ \E k \in 1..Len(df_api.rows) :
                        /\ df_api.rows[k].idx = i - 1
                        /\ df_api.rows[k].cell["id"] = ToNumeric(RawCell(api_raw, i, "id"))
                        /\ \A c \in DOMAIN api_raw[i] \cap {"title", "brand", "sku"} :
                              ~IsNa(api_raw[i][c]) => df_api.rows[k].cell[c] = api_raw[i][c]
        /\ \A k, m \in 1..Len(df_api.rows) : k < m => df_api.rows[k].idx < df_api.rows[m].idx

\* C7: no cell of a numeric, text or boolean column of a normalized table is
\* missing (the identifier column, whose type has a "no value", left aside)
C7_NoMissingCell ==
    \A df \in {df_api, df_web} :
        \A i \in 1..Len(df.rows) : \A c \in df.cols \ {"id"} : ~IsNa(df.rows[i].cell[c])

\* the raw values of column c in the records that survive in df_api
SurvivingRaw(c) ==
    [k \in 1..Len(df_api.rows) |-> RawCell(api_raw, df_api.rows[k].idx + 1, c)]

\* the fill of a missing cell by the class of its column, as the policy
\* states it: weight is the model's numeric column without a special rule,
\* sku its text column without one
PolicyFill(c) ==
    IF c \in {"price", "rating", "stock"} THEN Num(0)
    ELSE IF c \in {"title", "category", "brand", "description"} THEN Str("Unknown")
    ELSE IF c = "weight" THEN Median(SurvivingRaw(c))
    ELSE Str("")

\* C8: every missing cell of a normalized table is filled by the class of
\* its column, whatever the share of missing values in the column
C8_FillByColumnClass ==
    (pc # "start" /\ raised.op # "clean_api_data") =>
        \A k \in 1..Len(df_api.rows) :
            \A c \in df_api.cols \cap {"price", "weight", "title", "brand", "sku"} :
                (/\ IsNa(RawCell(api_raw, df_api.rows[k].idx + 1, c))
                 /\ (c = "weight" => \E m \in 1..Len(df_api.rows) : IsNum(SurvivingRaw(c)[m])))
                => df_api.rows[k].cell[c] = PolicyFill(c)

\* a text that spells no number
Unparseable(v) == v.k = "str" /\ IsNa(ParseNum(v.s))

\* C9: a price, rating or stock value that cannot be parsed never raises in
\* a normalizer and the normalized table holds 0 in that cell
C9_UnparseableMeasureBecomesZero ==
    (pc # "start"
     /\ \E i \in 1..Len(api_raw) : Unparseable(RawCell(api_raw, i, "price"))) =>
        /\ raised.op # "clean_api_data"
        /\ \A k \in 1..Len(df_api.rows) :
              Unparseable(RawCell(api_raw, df_api.rows[k].idx + 1, "price"))
              => df_api.rows[k].cell["price"] = Num(0)

\* C10: when the first table has a brand column and the second has none,
\* every merged row of the second has brand "Unknown" and every merged row
\* of the first keeps its brand
C10_MergeFillsBrand ==
    (pc = "merged" /\ "brand" \in df_api.cols /\ "brand" \notin df_web.cols) =>
        \A k \in 1..Len(df_merged.rows) :
            IF df_merged.rows[k].idx < Len(df_api.rows)
            THEN df_merged.rows[k].cell["brand"]
                    = df_api.rows[df_merged.rows[k].idx + 1].cell["brand"]
            ELSE df_merged.rows[k].cell["brand"] = Str("Unknown")

\* C11: the column set of merge_datasets(A, B) is the union of the column
\* sets of A and B, and every surviving row of A precedes every surviving
\* row of B (a row's index label is its position in the concatenation, so
\* a label below len(A) tells a row of A)
C11_MergeUnionColumnsAFirst ==
    pc = "merged" =>
        /\ df_merged.cols = df_api.cols \cup df_web.cols
        /\ \A k, m \in 1..Len(df_merged.rows) :
              (df_merged.rows[k].idx < Len(df_api.rows)
               /\ df_merged.rows[m].idx >= Len(df_api.rows)) => k < m
        /\ \A k \in 1..Len(df_merged.rows) :
              LET i == df_merged.rows[k].idx + 1
              IN IF i <= Len(df_api.rows)
                 THEN \A c \in df_api.cols :
                        df_merged.rows[k].cell[c] = df_api.rows[i].cell[c]
                 ELSE \A c \in df_web.cols :
                        df_merged.rows[k].cell[c]
                            = df_web.rows[i - Len(df_api.rows)].cell[c]

\* a merge in which each table has a column the other lacks and rows of
\* both tables survive
C11_Witness ==
    /\ pc = "merged"
    /\ df_api.cols \ df_web.cols # {} /\ df_web.cols \ df_api.cols # {}
    /\ \E k, m \in 1..Len(df_merged.rows) :
          /\ df_merged.rows[k].idx < Len(df_api.rows)
          /\ df_merged.rows[m].idx >= Len(df_api.rows)

\* the derived columns and, for each, the columns it is computed from
DerivedInputs ==
    [price_category |-> {"price"},
     rating_category |-> {"rating"},
     title_length |-> {"title"},
     title_word_count |-> {"title"},
     description_length |-> {"description"},
     description_word_count |-> {"description"},
     has_description |-> {"description"},
     discount_percentage |-> {"price", "regularprice"}]

DerivedNames == DOMAIN DerivedInputs

\* the step in which add_calculated_fields returned
Enriched == pc = "merged" /\ pc' = "enriched"

\* the step in which add_calculated_fields returned for the second time
EnrichedAgain == pc = "enriched" /\ pc' = "enriched_again"

\* the columns of t are among those of u, u has as many rows, and a column
\* of u that t lacks is a derived column whose input columns exist in t
Additive(t, u) ==
    /\ t.cols \subseteq u.cols
    /\ Len(u.rows) = Len(t.rows)
    /\ \A c \in u.cols \ t.cols : c \in DerivedNames /\ DerivedInputs[c] \subseteq t.cols

\* C12: enrichment is additive: the columns of add_calculated_fields(T)
\* include the columns of T, the result has as many rows as T, and a column
\* that is added is a derived column whose input columns exist in T; stated
\* for the merged table and for the enriched table enriched again
C12_EnrichAdditive ==
    [][/\ Enriched => Additive(df_merged, df_enriched')
       /\ EnrichedAgain => Additive(df_enriched, df_again')]_vars

\* an enriched table with rows, with the derived columns of the price and
\* the title and without those of the rating and the description
C12_Witness ==
    /\ pc = "enriched"
    /\ df_enriched.rows # <<>>
    /\ {"price_category", "title_length", "title_word_count"} \subseteq df_enriched.cols
    /\ {"rating", "rating_category", "description", "has_description"}
          \cap df_enriched.cols = {}

\* C13: the enricher never overwrites an existing column: a column of T
\* named like a derived column has the same values in
\* add_calculated_fields(T), and enriching an enriched table changes nothing
C13_EnrichKeepsExistingColumns ==
    [][/\ Enriched =>
            \A c \in DerivedNames \cap df_merged.cols :
                Column(df_enriched', c) = Column(df_merged, c)
       /\ EnrichedAgain => df_again' = df_enriched]_vars

\* the price_category cells of the enriched rows whose price is p
CategoriesAt(p) ==
    {df_enriched.rows[i].cell["price_category"] :
        i \in {j \in 1..Len(df_enriched.rows) : df_enriched.rows[j].cell["price"] = Num(p)}}

\* the enriched table has a price column
PriceEnriched == pc = "enriched" /\ "price" \in df_enriched.cols

\* C14: a row whose price is exactly 20 gets price_category "Budget" from
\* add_calculated_fields
C14_Price20IsBudget == PriceEnriched => CategoriesAt(20) \subseteq {Str("Budget")}

\* an enriched row with price 20 came from a record that brought no
\* price_category of its own
C14_Witness ==
    /\ PriceEnriched
    /\ CategoriesAt(20) # {}
    /\ \A i \in 1..Len(api_raw) : "price_category" \notin DOMAIN api_raw[i]

\* the bucket of a price by the convention lower bound inclusive, upper
\* bound exclusive, final bin open-ended
ConventionLabel(x) ==
    IF x.n < 2 * 20 THEN Str("Budget")
    ELSE IF x.n < 2 * 50 THEN Str("Mid-Range")
    ELSE IF x.n < 2 * 100 THEN Str("Premium")
    ELSE Str("Luxury")

\* C15: price buckets are lower bound inclusive, upper bound exclusive,
\* final bin open-ended: Budget for 0 <= price < 20, Mid-Range for
\* 20 <= price < 50, Premium for 50 <= price < 100, Luxury for price >= 100,
\* so at the boundary values 0 is Budget, 20 Mid-Range, 50 Premium and
\* 100 Luxury
C15_BucketsLowerInclusive ==
    PriceEnriched =>
        /\ CategoriesAt(0) \subseteq {Str("Budget")}
        /\ CategoriesAt(20) \subseteq {Str("Mid-Range")}
        /\ CategoriesAt(50) \subseteq {Str("Premium")}
        /\ CategoriesAt(100) \subseteq {Str("Luxury")}
        /\ \A i \in 1..Len(df_enriched.rows) :
              LET x == df_enriched.rows[i].cell["price"]
              IN (IsNum(x) /\ x.n >= 0)
                 => df_enriched.rows[i].cell["price_category"] = ConventionLabel(x)

\* C16: price bucketing is total: every enriched row whose price is a
\* number >= 0, price 0 and prices above 100 included, has one of the four
\* labels as its price_category
C16_BucketingTotal ==
    PriceEnriched =>
        \A i \in 1..Len(df_enriched.rows) :
            LET x == df_enriched.rows[i].cell["price"]
            IN (IsNum(x) /\ x.n >= 0)
               => df_enriched.rows[i].cell["price_category"]
                     \in {Str(PriceLabels[j]) : j \in 1..Len(PriceLabels)}

\* every raw record has the field and none has a value in it
FieldWithoutValue(c) ==
    /\ api_raw # <<>> \/ web_raw # <<>>
    /\ \A i \in 1..Len(api_raw) : c \in DOMAIN api_raw[i] /\ IsNa(api_raw[i][c])
    /\ \A i \in 1..Len(web_raw) : c \in DOMAIN web_raw[i] /\ IsNa(web_raw[i][c])

\* the mean of a described column is the number 0
MeanIsZero(d) == ~d.nan /\ d.cnt > 0 /\ d.sum = 0

\* C17: when the raw records have a rating field and none has a rating
\* value, the statistics of the normalized, merged and enriched table have
\* a rating_stats block whose mean is 0
C17_AllMissingRatingMeanZero ==
    (pc = "done" /\ FieldWithoutValue("rating")) =>
        /\ "rating_stats" \in stats.blocks
        /\ MeanIsZero(stats.rating_stats)

\* C18: when the table given to generate_statistics has a price column
\* whose every value is missing, the statistics have no price_stats block
\* and hold no NaN
C18_AllMissingPriceOmitsBlock ==
    (/\ pc = "done"
     /\ "price" \in df_enriched.cols
     /\ df_enriched.rows # <<>>
     /\ \A i \in 1..Len(df_enriched.rows) : IsNa(df_enriched.rows[i].cell["price"])) =>
        /\ "price_stats" \notin stats.blocks
        /\ \A b \in stats.blocks \cap {"price_stats", "rating_stats"} : ~stats[b].nan

\* C19: the synthesized id is deterministic: the same (title, product_url)
\* gets the same id from clean_web_scraped_data in any two runs, runs in
\* different interpreter processes included
C19_SynthesizedIdDeterministic ==
    pc = "web_cleaned_twice" =>
        \A i \in 1..Len(df_web.rows) : \A j \in 1..Len(df_web_other.rows) :
            (/\ df_web.rows[i].cell["title"] = df_web_other.rows[j].cell["title"]
             /\ df_web.rows[i].cell["product_url"] = df_web_other.rows[j].cell["product_url"])
            => df_web.rows[i].cell["id"] = df_web_other.rows[j].cell["id"]

\* the i-th raw API record has a reviews list with an element that is not
\* a mapping
Malformed(i) == "reviews" \in DOMAIN api_raw[i] /\ BadReviews(api_raw[i]["reviews"])

\* C20: a malformed record never aborts the batch: when a raw API record
\* has a reviews list with an element that is not a mapping,
\* clean_api_data does not raise and returns the rows of the other
\* records (a row for the id of every well-formed record)
C20_MalformedRecordSkipped ==
    (pc # "start" /\ \E i \in 1..Len(api_raw) : Malformed(i)) =>
        /\ raised.op # "clean_api_data"
        /\ \A i \in 1..Len(api_raw) :
              ~Malformed(i) =>
                 \E k \in 1..Len(df_api.rows) :
                    df_api.rows[k].cell["id"] = ToNumeric(RawCell(api_raw, i, "id"))

\* the i-th raw API record has no id: the key is absent or its value null
LacksId(i) == IsNa(RawCell(api_raw, i, "id"))

\* C21: a raw record that lacks an expected field is kept: when records of
\* the input of clean_api_data have no id, no exception is raised and each
\* of them has its own row in the output, so two records that both lack id
\* both survive
C21_RecordWithoutIdKept ==
    (pc # "start" /\ \E i \in 1..Len(api_raw) : LacksId(i)) =>
        /\ raised.op # "clean_api_data"
        /\ \A i \in 1..Len(api_raw) :
              LacksId(i) => \E k \in 1..Len(df_api.rows) : df_api.rows[k].idx = i - 1

\* table df has the bookkeeping columns and every row the tag of its source
Bookkept(df, source) ==
    /\ {"data_source", "scraped_at"} \subseteq df.cols
    /\ \A i \in 1..Len(df.rows) : df.rows[i].cell["data_source"] = source

\* C22: every table a normalizer returns, the result for an empty input
\* included, has the columns data_source and scraped_at, and every row has
\* the tag of its normalizer as data_source
C22_BookkeepingColumns ==
    /\ (pc # "start" /\ raised.op # "clean_api_data") => Bookkept(df_api, ApiSource)
    /\ (/\ pc \notin {"start", "api_cleaned"}
        /\ raised.op \notin {"clean_api_data", "clean_web_scraped_data"})
          => Bookkept(df_web, WebSource)

\* the core stages that were called, in the order of their calls
StagesCalled ==
    [i \in 1..(Len(calls) \div 2) |-> calls[2 * i - 1].stage]

\* C23: the caller treats an empty result as a legitimate outcome: when the
\* sources yield zero records and nothing failed, run_full_pipeline does
\* not return False; it goes on through merge, enrichment, statistics and
\* export
C23_EmptyResultNotFailure ==
    (pc = "returned" /\ api_raw = <<>> /\ web_raw = <<>> /\ raised = NoException) =>
        /\ returned # "False"
        /\ export_paths = "paths"
        /\ \A st \in {"merge_datasets", "add_calculated_fields", "generate_statistics"} :
              \E i \in 1..Len(StagesCalled) : StagesCalled[i] = st

\* the core stages in pipeline order
StageOrder ==
    <<"clean_api_data", "clean_web_scraped_data", "merge_datasets",
      "add_calculated_fields", "generate_statistics">>

\* the position in calls of the given event of a stage, 0 when there is none
EventAt(stage, event) ==
    LET hit == {i \in 1..Len(calls) : calls[i].stage = stage /\ calls[i].event = event}
    IN IF hit = {} THEN 0 ELSE CHOOSE i \in hit : \A j \in hit : i <= j

\* stage b was called only after stage a had returned
After(a, b) ==
    EventAt(b, "call") > 0 =>
        EventAt(a, "return") > 0 /\ EventAt(a, "return") < EventAt(b, "call")

\* C24: the stages of one pipeline run are strictly in sequence:
\* merge_datasets is called only after clean_api_data and
\* clean_web_scraped_data have returned, add_calculated_fields only after
\* merge_datasets has returned, generate_statistics only after
\* add_calculated_fields has returned; no stage is called twice, and a
\* run that returns True has called every stage
C24_StagesInSequence ==
    /\ After("clean_api_data", "merge_datasets")
    /\ After("clean_web_scraped_data", "merge_datasets")
    /\ After("merge_datasets", "add_calculated_fields")
    /\ After("add_calculated_fields", "generate_statistics")
    /\ \A i, j \in 1..Len(StagesCalled) : i # j => StagesCalled[i] # StagesCalled[j]
    /\ returned = "True" => StagesCalled = StageOrder

\* a run that went through the five stages with records of both sources
\* and returned True
C24_Witness ==
    /\ returned = "True"
    /\ api_raw # <<>> /\ web_raw # <<>>
    /\ StagesCalled = StageOrder
    /\ stats # NoStats

\* the operations of run_data_cleaning and of run_export
CleaningOps ==
    {"clean_api_data", "clean_web_scraped_data", "merge_datasets", "add_calculated_fields"}
ExportOps == {"export_to_csv", "export_to_json"}

\* C25: run_full_pipeline returns True only if the export phase ran and
\* returned its paths; the export phase is not started when cleaning
\* returned None or a table without rows; cleaning is not started when
\* both extractions returned no records; an exception raised inside
\* extraction, cleaning or export is caught and gives an empty list, None
\* and a False result, and never leaves run_full_pipeline
C25_PipelineResult ==
    /\ returned \in {"", "True", "False"}
    /\ returned = "True" => export_paths = "paths"
    /\ (export_paths # "unset" \/ stats # NoStats) =>
          df_final = "DataFrame" /\ Len(df_enriched.rows) > 0
    /\ (pc \notin {"pipeline", "api_extracted"} /\ api_raw = <<>> /\ web_raw = <<>>) =>
          calls = <<>> /\ df_final = "unset"
    /\ raised.op = "get_all_products" => api_raw = <<>>
    /\ raised.op = "scrape_all_products" => web_raw = <<>>
    /\ raised.op \in CleaningOps => df_final = "None" /\ export_paths = "unset"
    /\ raised.op \in ExportOps => export_paths = "None"
    /\ (pc = "returned" /\ raised.op \in CleaningOps \cup ExportOps) => returned = "False"

\* a run in which the API extraction raised, the crawl gave records and
\* the pipeline went on to return True
C25_Witness ==
    /\ pc = "returned" /\ returned = "True"
    /\ raised.op = "get_all_products"
    /\ web_raw # <<>> /\ export_paths = "paths"

\* C26: get_all_products(max_products) returns at most max_products
\* records, the records are a prefix of the concatenation of the fetched
\* pages in fetch order, and with max_products = 0 it returns an empty list
\* without a request
C26_ApiAtMostMaxProducts ==
    method = "get_all_products" =>
        /\ Len(all_products) <= max_products
        /\ Len(all_products) <= Len(fetched)
        /\ all_products = SubSeq(fetched, 1, Len(all_products))
        /\ max_products = 0 => requests = 0 /\ all_products = <<>>

\* get_all_products returned max_products records after two requests whose
\* pages held more than that
C26_Witness ==
    /\ method = "get_all_products" /\ at = "returned"
    /\ requests = 2
    /\ Len(all_products) = max_products
    /\ Len(fetched) > max_products

\* C27: one top-level call of _make_request issues at most RETRY_TIMES + 1
\* HTTP requests, returns the JSON body only when a request got status 200
\* and None otherwise, and issues no request after a 404 or after an
\* exception other than timeout and connection error
C27_BoundedRetry ==
    method = "_make_request" =>
        /\ requests <= RETRY_TIMES + 1
        /\ requests = Len(responses)
        /\ result = "json" =>
              at = "returned" /\ responses # <<>> /\ responses[Len(responses)] = "200"
        /\ at = "returned" =>
              result = (IF responses[Len(responses)] = "200" THEN "json" ELSE "None")
        /\ \A i \in 1..(Len(responses) - 1) : responses[i] \in Retried

\* a call that was answered 429, 500, a timeout and then 200 on its last
\* allowed request
C27_Witness ==
    /\ method = "_make_request" /\ at = "returned"
    /\ responses = <<"429", "500", "Timeout", "200">>
    /\ requests = RETRY_TIMES + 1
    /\ result = "json"

\* C28: scrape_all_products returns at most max_products products and,
\* whenever max_pages is a number, 0 included, scrapes at most max_pages
\* list pages
C28_WebAtMostMaxPages ==
    method = "scrape_all_products" =>
        /\ Len(all_products) <= max_products
        /\ max_pages # NoMaxPages => requests <= max_pages

\* crawl record i is the first of the input with its (title, product_url)
FirstOfItsKey(i) ==
    \A j \in 1..(i - 1) :
        \/ RawCell(web_raw, j, "title") # RawCell(web_raw, i, "title")
        \/ RawCell(web_raw, j, "product_url") # RawCell(web_raw, i, "product_url")

\* C29: clean_web_scraped_data drops a record only when an earlier record
\* of the input has the same (title, product_url): two records that differ
\* in title or in product_url both survive
C29_WebDropsOnlySameKey ==
    (/\ pc \notin {"start", "api_cleaned"}
     /\ raised.op \notin {"clean_api_data", "clean_web_scraped_data"}) =>
        \A i \in 1..Len(web_raw) :
            FirstOfItsKey(i) => \E k \in 1..Len(df_web.rows) : df_web.rows[k].idx = i - 1

\* the calls the claim says come to an end: get_all_products always,
\* scrape_all_products when max_pages is a positive number
Terminating ==
    \/ method = "get_all_products"
    \/ method = "scrape_all_products" /\ max_pages >= 1

\* C30: the pagination loops terminate. Each iteration of the loop of
\* get_all_products leaves the loop or strictly increases the number of
\* collected products, which max_products caps; each iteration of the loop
\* of scrape_all_products counts one more page, and a positive max_pages
\* caps the count; so both calls return (or raise) in the end
C30_LoopsTerminate ==
    /\ [][FetchPage => (at' # "running" \/ Len(all_products') > Len(all_products))]_vars
    /\ [][ScrapePage => page_count' = page_count + 1]_vars
    /\ [](method = "get_all_products" => Len(all_products) <= max_products)
    /\ []((method = "scrape_all_products" /\ max_pages >= 1) => page_count <= max_pages + 1)
    /\ (Terminating ~> at # "running")

\* get_all_products has returned after the iteration on its second page
C30_Witness ==
    /\ method = "get_all_products" /\ at = "returned"
    /\ skip = Limit /\ requests = 2
    /\ Len(all_products) = 2

====
